---- MODULE Spec2Model ----
(***************************************************************************)
(* Model of the limit-order book of src/orderbook.py (class Orderbook),    *)
(* with the order records of src/order.py and the enumerations of          *)
(* src/ordertypes.py.                                                      *)
(*                                                                         *)
(* The book is the four collections guarded by Orderbook.lock: bids, asks, *)
(* orders (the registry) and data (the per-price ledger).  Order objects   *)
(* are held by reference in Python: the queues and the registry share one  *)
(* object per order.  The model keeps the objects in a heap, obj, addressed*)
(* by order_id; queues and registry entries hold the address.  add_order   *)
(* only inserts an object whose order_id is not in the registry, so two    *)
(* live objects share an address only after the registry and the queues    *)
(* have already disagreed.                                                 *)
(*                                                                         *)
(* threading.Lock is not reentrant: a thread that enters `with self.lock`  *)
(* while it holds the lock blocks forever.  The caller's position pc is    *)
(* "deadlock" in that case, and "spin" when _match_orders iterates its     *)
(* outer loop without changing anything.                                   *)
(***************************************************************************)
EXTENDS Integers, Sequences, FiniteSets, TLC

\* ---------------------------------------------------------------- bounds
MaxId == 3
MaxPrice == 2
MaxQty == 2
MaxOps == 3
MaxDayOps == 2
MaxClock == 2

\* ------------------------------------------------------------- constants
\* price of an unconverted market order (math.nan in create_market_order)
NAN == 0

\* src/ordertypes.py
OrderType == {"GOOD_TILL_CANCEL", "FILL_AND_KILL", "FILL_OR_KILL", "GOOD_FOR_DAY", "MARKET"}

Side == {"BUY", "SELL"}

Ids == 1..MaxId

Prices == 1..MaxPrice

Quantities == 1..MaxQty

\* ------------------------------------------------------------- variables
VARIABLES bids, asks, orders, obj, data, lock, pc, call, trades, prunerPc, order_ids, shutdown, ncalls, now

vars == <<bids, asks, orders, obj, data, lock, pc, call, trades, prunerPc, order_ids, shutdown, ncalls, now>>

\* ---------------------------------------------------------- dict helpers
Max(S) == CHOOSE x \in S : \A y \in S : y <= x

Min(S) == CHOOSE x \in S : \A y \in S : x <= y

\* the larger of two numbers
MaxOf(a, b) == IF a >= b THEN a ELSE b

MinOf(a, b) == IF a <= b THEN a ELSE b

\* d[k] = v
Put(d, k, v) == [x \in (DOMAIN d) \cup {k} |-> IF x = k THEN v ELSE d[x]]

\* del d[k]
Del(d, k) == [x \in (DOMAIN d) \ {k} |-> d[x]]

EmptyDict == [x \in {} |-> 0]

\* list.pop(0)
Pop0(s) == SubSeq(s, 2, Len(s))

\* list.remove(x): drops the first occurrence of x
ListRemove(s, x) ==
    IF \E i \in 1..Len(s) : s[i] = x
    THEN LET i == CHOOSE j \in 1..Len(s) : s[j] = x /\ \A k \in 1..(j - 1) : s[k] # x
         IN SubSeq(s, 1, i - 1) \o SubSeq(s, i + 1, Len(s))
    ELSE s

RECURSIVE SumSeq(_)
SumSeq(s) == IF s = <<>> THEN 0 ELSE Head(s) + SumSeq(Tail(s))

\* ------------------------------------------------------------ the records
\* Order.__init__
Order(order_type, order_id, side, price, quantity) ==
    [order_type |-> order_type, order_id |-> order_id, side |-> side, price |-> price,
     initial_quantity |-> quantity, remaining_quantity |-> quantity]

\* Order.create_market_order
create_market_order(order_id, side, quantity) == Order("MARKET", order_id, side, NAN, quantity)

\* Order.is_filled
is_filled(o) == o.remaining_quantity = 0

\* Order.fill; the caller tests fill_raises first
fill(o, quantity) == [o EXCEPT !.remaining_quantity = @ - quantity]

fill_raises(o, quantity) == quantity > o.remaining_quantity

\* Order.to_good_till_cancel
to_good_till_cancel(o, price) == [o EXCEPT !.price = price, !.order_type = "GOOD_TILL_CANCEL"]

\* OrderModify.to_order
to_order(modify, order_type) ==
    Order(order_type, modify.order_id, modify.side, modify.price, modify.quantity)

\* Trade(TradeInfo, TradeInfo)
Trade(bid, ask, quantity) ==
    [bid_trade |-> [order_id |-> bid.order_id, price |-> bid.price, quantity |-> quantity],
     ask_trade |-> [order_id |-> ask.order_id, price |-> ask.price, quantity |-> quantity]]

\* ---------------------------------------------------------------- the book
\* The four collections under the lock, as one value.
Book == [bids |-> bids, asks |-> asks, orders |-> orders, obj |-> obj, data |-> data]

EmptyBook == [bids |-> EmptyDict, asks |-> EmptyDict, orders |-> <<>>, obj |-> EmptyDict, data |-> EmptyDict]

\* order_id in self.orders
InRegistry(b, order_id) == \E i \in 1..Len(b.orders) : b.orders[i].order_id = order_id

\* self.orders[order_id]: the entry's handle is the queue under (side, price)
RegistryEntry(b, order_id) == b.orders[CHOOSE i \in 1..Len(b.orders) : b.orders[i].order_id = order_id]

\* del self.orders[order_id]
RegistryDel(reg, order_id) == SelectSeq(reg, LAMBDA e : e.order_id # order_id)

\* the side map a side selects
SideMap(b, side) == IF side = "BUY" THEN b.bids ELSE b.asks

WithSideMap(b, side, m) == IF side = "BUY" THEN [b EXCEPT !.bids = m] ELSE [b EXCEPT !.asks = m]

\* addresses some queue holds
Queued(b) ==
    UNION {{b.bids[p][i] : i \in 1..Len(b.bids[p])} : p \in DOMAIN b.bids}
    \cup UNION {{b.asks[p][i] : i \in 1..Len(b.asks[p])} : p \in DOMAIN b.asks}

\* objects no collection references are garbage
Collect(b) ==
    LET live == Queued(b) \cup {b.orders[i].order_id : i \in 1..Len(b.orders)}
    IN [b EXCEPT !.obj = [a \in (DOMAIN b.obj) \cap live |-> b.obj[a]]]

\* Orderbook._update_level_data (self.data is a defaultdict)
_update_level_data(d, price, quantity, is_add, is_match) ==
    LET old == IF price \in DOMAIN d THEN d[price] ELSE [quantity |-> 0, count |-> 0]
        new == IF is_add THEN [quantity |-> old.quantity + quantity, count |-> old.count + 1]
               ELSE IF is_match THEN [quantity |-> old.quantity - quantity, count |-> old.count]
               ELSE [quantity |-> old.quantity - quantity, count |-> old.count - 1]
    IN IF new.count = 0 THEN Del(d, price) ELSE Put(d, price, new)

\* Orderbook._can_match
_can_match(b, side, price) ==
    IF side = "BUY"
    THEN DOMAIN b.asks # {} /\ price >= Min(DOMAIN b.asks)
    ELSE DOMAIN b.bids # {} /\ price <= Max(DOMAIN b.bids)

\* the for loop of _can_fully_fill over the sorted ledger keys still to visit
RECURSIVE FullyFillWalk(_, _, _, _, _)
FullyFillWalk(d, side, price, remaining_quantity, keys) ==
    IF keys = {} THEN FALSE
    ELSE LET level_price == IF side = "BUY" THEN Max(keys) ELSE Min(keys)
             rest == keys \ {level_price}
         IN IF (side = "BUY" /\ level_price > price) \/ (side = "SELL" /\ level_price < price)
            THEN FullyFillWalk(d, side, price, remaining_quantity, rest)
            ELSE IF remaining_quantity <= d[level_price].quantity THEN TRUE
            ELSE FullyFillWalk(d, side, price, remaining_quantity - d[level_price].quantity, rest)

\* Orderbook._can_fully_fill
_can_fully_fill(b, side, price, quantity) ==
    IF ~_can_match(b, side, price) THEN FALSE
    ELSE FullyFillWalk(b.data, side, price, quantity, DOMAIN b.data)

\* ------------------------------------------------------------- admission
\* admission that accepts an identifier the registry already holds
AdmitDuplicates(b, order) ==
    IF order.order_type = "MARKET" /\ ~(order.side = "BUY" /\ DOMAIN b.asks # {})
                                   /\ ~(order.side = "SELL" /\ DOMAIN b.bids # {})
    THEN [verdict |-> "reject", order |-> order]
    ELSE LET o == IF order.order_type # "MARKET" THEN order
                  ELSE IF order.side = "BUY"
                       THEN to_good_till_cancel(order, Max(DOMAIN b.asks))
                       ELSE to_good_till_cancel(order, Min(DOMAIN b.bids))
         IN IF o.order_type = "FILL_AND_KILL" /\ ~_can_match(b, o.side, o.price)
            THEN [verdict |-> "reject", order |-> o]
            ELSE IF o.order_type = "FILL_OR_KILL"
                    /\ ~_can_fully_fill(b, o.side, o.price, o.initial_quantity)
            THEN [verdict |-> "reject", order |-> o]
            ELSE [verdict |-> "insert", order |-> o]

\* add_order, lines 158-177: the duplicate test, the market conversion and the
\* two admission tests.  verdict "reject" is one of the `return []`.
Admit(b, order) ==
    IF InRegistry(b, order.order_id) THEN [verdict |-> "reject", order |-> order]
    ELSE IF order.order_type = "MARKET" /\ ~(order.side = "BUY" /\ DOMAIN b.asks # {})
                                        /\ ~(order.side = "SELL" /\ DOMAIN b.bids # {})
    THEN [verdict |-> "reject", order |-> order]
    ELSE LET o == IF order.order_type # "MARKET" THEN order
                  ELSE IF order.side = "BUY"
                       THEN to_good_till_cancel(order, Max(DOMAIN b.asks))
                       ELSE to_good_till_cancel(order, Min(DOMAIN b.bids))
         IN IF o.order_type = "FILL_AND_KILL" /\ ~_can_match(b, o.side, o.price)
            THEN [verdict |-> "reject", order |-> o]
            ELSE IF o.order_type = "FILL_OR_KILL"
                    /\ ~_can_fully_fill(b, o.side, o.price, o.initial_quantity)
            THEN [verdict |-> "reject", order |-> o]
            ELSE [verdict |-> "insert", order |-> o]

\* a queue that takes new orders at its head
EnqueueAtHead(q, order_id) == <<order_id>> \o q

\* orders_dict[order.price].append(order), line 183
Enqueue(q, order_id) == Append(q, order_id)

\* add_order, lines 179-185
Insert(b, o) ==
    LET orders_dict == SideMap(b, o.side)
        q == IF o.price \in DOMAIN orders_dict THEN orders_dict[o.price] ELSE <<>>
        b1 == WithSideMap(b, o.side, Put(orders_dict, o.price, Enqueue(q, o.order_id)))
    IN [b1 EXCEPT !.obj = Put(b.obj, o.order_id, o),
                  !.orders = Append(RegistryDel(b.orders, o.order_id),
                                    [order_id |-> o.order_id, side |-> o.side, price |-> o.price]),
                  !.data = _update_level_data(b.data, o.price, o.initial_quantity, TRUE, FALSE)]

\* ---------------------------------------------------------------- matching
\* _match_orders, lines 105-110: the outer loop stops
LoopExits(b) ==
    \/ DOMAIN b.bids = {}
    \/ DOMAIN b.asks = {}
    \/ Max(DOMAIN b.bids) < Min(DOMAIN b.asks)

\* a filled head that leaves its queue and stays in the registry
PopFilledKeepsEntry(b, side, level, o) ==
    IF is_filled(o)
    THEN WithSideMap(b, side, Put(SideMap(b, side), level, Pop0(SideMap(b, side)[level])))
    ELSE b

\* _match_orders, lines 138-144: filled heads leave their queue and the registry
PopFilled(b, side, level, o) ==
    IF is_filled(o)
    THEN [WithSideMap(b, side, Put(SideMap(b, side), level, Pop0(SideMap(b, side)[level])))
            EXCEPT !.orders = RegistryDel(b.orders, o.order_id)]
    ELSE b

\* _match_orders, lines 146-152: an emptied level is dropped, the bid level first
DropEmptyLevels(b, best_bid_price, best_ask_price) ==
    IF b.bids[best_bid_price] = <<>> THEN [b EXCEPT !.bids = Del(b.bids, best_bid_price)]
    ELSE IF b.asks[best_ask_price] = <<>> THEN [b EXCEPT !.asks = Del(b.asks, best_ask_price)]
    ELSE b

\* _match_orders, lines 129-136: what the FILL_AND_KILL branch does after the
\* fill.  cancel_order enters `with self.lock` under add_order's own lock.
FillAndKillExit(bid, ask) ==
    IF ~is_filled(bid) THEN "deadlock"
    ELSE IF ~is_filled(ask) THEN "deadlock"
    ELSE "returned"

\* the lowest bid price
worst_bid_price(b) == Min(DOMAIN b.bids)

\* _match_orders, line 106
best_bid_price(b) == Max(DOMAIN b.bids)

\* _match_orders, line 107
best_ask_price(b) == Min(DOMAIN b.asks)

\* One pass of the outer loop of _match_orders from its head (lines 105-152),
\* entered with the loop condition true and the best prices crossed.  After a
\* pass of the inner loop that does not break, both queues are non-empty and
\* the keys are unchanged, so the inner loop head and the outer loop head
\* behave alike and the pass ends at status "loop".
MatchPass(b, tr) ==
    LET bid_level == best_bid_price(b)
        ask_level == best_ask_price(b)
    IN IF b.bids[bid_level] = <<>> \/ b.asks[ask_level] = <<>>
       THEN [book |-> b, trades |-> tr, status |-> "spin"]
       ELSE
       LET bid0 == b.obj[Head(b.bids[bid_level])]
           ask0 == b.obj[Head(b.asks[ask_level])]
           match_quantity == MinOf(bid0.remaining_quantity, ask0.remaining_quantity)
       IN IF fill_raises(bid0, match_quantity) \/ fill_raises(ask0, match_quantity)
          THEN [book |-> b, trades |-> tr, status |-> "raised"]
          ELSE
          LET bid == fill(bid0, match_quantity)
              ask == fill(ask0, match_quantity)
              tr1 == Append(tr, Trade(bid, ask, match_quantity))
              d1 == _update_level_data(b.data, bid.price, match_quantity, FALSE, TRUE)
              d2 == _update_level_data(d1, ask.price, match_quantity, FALSE, TRUE)
              b1 == [b EXCEPT !.obj = Put(Put(b.obj, bid.order_id, bid), ask.order_id, ask),
                              !.data = d2]
          IN IF bid.order_type = "FILL_AND_KILL" \/ ask.order_type = "FILL_AND_KILL"
             THEN [book |-> b1, trades |-> tr1, status |-> FillAndKillExit(bid, ask)]
             ELSE LET b2 == PopFilled(b1, "BUY", bid_level, bid)
                      b3 == PopFilled(b2, "SELL", ask_level, ask)
                      b4 == DropEmptyLevels(b3, bid_level, ask_level)
                  IN [book |-> Collect(b4), trades |-> tr1, status |-> "loop"]

\* a pass, followed by the loop-head test that ends the call
MatchStepResult(b, tr) ==
    LET r == MatchPass(b, tr)
    IN IF r.status = "loop" /\ LoopExits(r.book) THEN [r EXCEPT !.status = "returned"] ELSE r

\* Orderbook._match_orders, run to its end
RECURSIVE _match_orders(_, _)
_match_orders(b, tr) ==
    IF LoopExits(b) THEN [book |-> b, trades |-> tr, status |-> "returned"]
    ELSE LET r == MatchPass(b, tr)
         IN IF r.status = "loop" THEN _match_orders(r.book, r.trades) ELSE r

\* ------------------------------------------------------------------ cancel
\* Orderbook.cancel_order, lines 191-203 (the body under the lock)
cancel_order(b, order_id) ==
    IF ~InRegistry(b, order_id) THEN b
    ELSE LET e == RegistryEntry(b, order_id)
             order == b.obj[order_id]
             handle == SideMap(b, e.side)
             order_list == ListRemove(handle[e.price], order_id)
             b1 == WithSideMap([b EXCEPT !.orders = RegistryDel(b.orders, order_id)],
                               e.side, Put(handle, e.price, order_list))
             orders_dict == SideMap(b1, order.side)
             b2 == IF order_list = <<>>
                   THEN WithSideMap(b1, order.side, Del(orders_dict, order.price))
                   ELSE b1
         IN Collect([b2 EXCEPT !.data = _update_level_data(b1.data, order.price,
                                                          order.remaining_quantity, FALSE, FALSE)])

\* Orderbook.add_order, run to its end
add_order(b, order) ==
    LET a == Admit(b, order)
    IN IF a.verdict = "reject" THEN [book |-> b, trades |-> <<>>, status |-> "returned"]
       ELSE _match_orders(Insert(b, a.order), <<>>)

\* Orderbook.modify_order: line 213 enters cancel_order's `with self.lock`
\* while modify_order holds the lock
modify_order(b, modify) ==
    IF ~InRegistry(b, modify.order_id) THEN [book |-> b, trades |-> <<>>, status |-> "returned"]
    ELSE [book |-> b, trades |-> <<>>, status |-> "deadlock"]

\* Orderbook.size
size(b) == Len(b.orders)

\* Orderbook.get_order_infos; the lists are taken as sets of LevelInfo
LevelInfos(b, m) ==
    {[price |-> p, quantity |-> SumSeq([i \in 1..Len(m[p]) |-> b.obj[m[p][i]].remaining_quantity])]
        : p \in DOMAIN m}

get_order_infos(b) == <<LevelInfos(b, b.bids), LevelInfos(b, b.asks)>>

\* ------------------------------------------------------------ the machine
\* the calls a caller can make
OrderInputs ==
    {Order(t, i, s, p, q) : t \in OrderType \ {"MARKET"}, i \in Ids, s \in Side, p \in Prices, q \in Quantities}
    \cup {create_market_order(i, s, q) : i \in Ids, s \in Side, q \in Quantities}

\* OrderModify.__init__
OrderModify == [order_id : Ids, side : Side, price : Prices, quantity : Quantities]

\* the call in progress or last returned: its operation, the identifier passed
\* to it, whether add_order reached its insertion (line 179), whether
\* Order.fill raised
CallRecord(op, order_id, admitted) ==
    [op |-> op, order_id |-> order_id, admitted |-> admitted, raised |-> FALSE]

\* a caller starts a call: the model follows MaxOps calls
StartCall ==
    /\ pc = "idle"
    /\ lock = "free"
    /\ ncalls < MaxOps
    /\ ncalls' = ncalls + 1

SetBook(b) ==
    /\ bids' = b.bids
    /\ asks' = b.asks
    /\ orders' = b.orders
    /\ obj' = b.obj
    /\ data' = b.data

\* Orderbook.__init__: empty collections, the lock free, the pruner started
Init ==
    /\ bids = EmptyDict
    /\ asks = EmptyDict
    /\ orders = <<>>
    /\ obj = EmptyDict
    /\ data = EmptyDict
    /\ lock = "free"
    /\ pc = "idle"
    /\ call = CallRecord("none", 0, FALSE)
    /\ trades = <<>>
    /\ prunerPc = "wait"
    /\ order_ids = <<>>
    /\ shutdown = FALSE
    /\ ncalls = 0
    /\ now = 0

\* where a caller stands after a step of add_order
AfterStep(status) ==
    /\ pc' = CASE status = "returned" -> "idle"
               [] status = "raised" -> "idle"
               [] status = "loop" -> "match"
               [] OTHER -> status
    /\ lock' = IF status \in {"returned", "raised"} THEN "free" ELSE "caller"

\* Orderbook.add_order up to the first pass of _match_orders
AddOrder(order) ==
    /\ StartCall
    /\ LET a == Admit(Book, order)
       IN /\ trades' = <<>>
          /\ IF a.verdict = "reject"
             THEN /\ call' = CallRecord("add", order.order_id, FALSE)
                  /\ UNCHANGED <<bids, asks, orders, obj, data, lock, pc>>
             ELSE LET b == Insert(Book, a.order)
                  IN /\ call' = CallRecord("add", order.order_id, TRUE)
                     /\ SetBook(b)
                     /\ AfterStep(IF LoopExits(b) THEN "returned" ELSE "loop")
    /\ UNCHANGED <<prunerPc, order_ids, shutdown, now>>

\* one pass of the loop of _match_orders, under add_order's lock
MatchStep ==
    /\ pc = "match"
    /\ LET r == MatchStepResult(Book, trades)
       IN /\ SetBook(r.book)
          /\ trades' = r.trades
          /\ call' = [call EXCEPT !.raised = (r.status = "raised")]
          /\ AfterStep(r.status)
    /\ UNCHANGED <<prunerPc, order_ids, shutdown, ncalls, now>>

\* Orderbook.cancel_order called by a caller
CancelOrder(order_id) ==
    /\ StartCall
    /\ SetBook(cancel_order(Book, order_id))
    /\ call' = CallRecord("cancel", order_id, FALSE)
    /\ trades' = <<>>
    /\ UNCHANGED <<lock, pc, prunerPc, order_ids, shutdown, now>>

\* Orderbook.modify_order
ModifyOrder(modify) ==
    /\ StartCall
    /\ LET r == modify_order(Book, modify)
       IN /\ SetBook(r.book)
          /\ trades' = r.trades
          /\ AfterStep(r.status)
    /\ call' = CallRecord("modify", modify.order_id, FALSE)
    /\ UNCHANGED <<prunerPc, order_ids, shutdown, now>>

\* _prune_good_for_day_orders, lines 37-50: the loop test, the timed wait and
\* the test after it
PrunerPoll ==
    /\ prunerPc = "wait"
    /\ prunerPc' = IF shutdown THEN "done" ELSE "snapshot"
    /\ UNCHANGED <<bids, asks, orders, obj, data, lock, pc, call, trades, order_ids, shutdown, ncalls, now>>

\* the identifiers line 54-56 collect, in the registry's order
GoodForDayIds(b) ==
    LET sel == SelectSeq(b.orders, LAMBDA e : b.obj[e.order_id].order_type = "GOOD_FOR_DAY")
    IN [i \in 1..Len(sel) |-> sel[i].order_id]

\* _prune_good_for_day_orders, lines 52-56
PrunerSnapshot ==
    /\ prunerPc = "snapshot"
    /\ lock = "free"
    /\ order_ids' = GoodForDayIds(Book)
    /\ prunerPc' = IF order_ids' = <<>> THEN "wait" ELSE "cancel"
    /\ UNCHANGED <<bids, asks, orders, obj, data, lock, pc, call, trades, shutdown, ncalls, now>>

\* _prune_good_for_day_orders, lines 58-59: one cancel_order of the for loop
PrunerCancel ==
    /\ prunerPc = "cancel"
    /\ lock = "free"
    /\ SetBook(cancel_order(Book, Head(order_ids)))
    /\ order_ids' = Tail(order_ids)
    /\ prunerPc' = IF order_ids' = <<>> THEN "wait" ELSE "cancel"
    /\ UNCHANGED <<lock, pc, call, trades, shutdown, ncalls, now>>

\* Orderbook.cleanup
Cleanup ==
    /\ ~shutdown
    /\ shutdown' = TRUE
    /\ UNCHANGED <<bids, asks, orders, obj, data, lock, pc, call, trades, prunerPc, order_ids, ncalls, now>>

Next ==
    \/ \E order \in OrderInputs : AddOrder(order)
    \/ MatchStep
    \/ \E order_id \in Ids : CancelOrder(order_id)
    \/ \E modify \in OrderModify : ModifyOrder(modify)
    \/ PrunerPoll
    \/ PrunerSnapshot
    \/ PrunerCancel
    \/ Cleanup

Spec == Init /\ [][Next]_vars

\* ------------------------------------------------------- the clock followed
\* Spec leaves the wall clock out: no test of the code reads it.  The day
\* specification follows datetime.now() in whole ticks up to the 16:00 of
\* line 40, for MaxDayOps calls.
Cutoff == MaxClock

\* time passes
Tick ==
    /\ now < MaxClock
    /\ now' = now + 1
    /\ UNCHANGED <<bids, asks, orders, obj, data, lock, pc, call, trades, prunerPc, order_ids, shutdown, ncalls>>

DayCall == ncalls < MaxDayOps

NextDay ==
    \/ DayCall /\ \E order \in OrderInputs : AddOrder(order)
    \/ MatchStep
    \/ DayCall /\ \E order_id \in Ids : CancelOrder(order_id)
    \/ DayCall /\ \E modify \in OrderModify : ModifyOrder(modify)
    \/ PrunerPoll
    \/ PrunerSnapshot
    \/ PrunerCancel
    \/ Cleanup
    \/ Tick

\* The pruner thread and a caller inside add_order run whenever they can.
\* The last conjunct is WF_vars(MatchStep) written out: MatchStep is enabled
\* exactly when pc = "match", and every MatchStep changes trades or pc.
DaySpec ==
    /\ Init
    /\ [][NextDay]_vars
    /\ WF_vars(PrunerPoll)
    /\ WF_vars(PrunerSnapshot)
    /\ WF_vars(PrunerCancel)
    /\ ([]<>(pc # "match") \/ []<><<MatchStep>>_vars)

\* =================================================================== claims
\* no call in progress: every call made so far has returned
AtRest == lock = "free"

\* the orders of one discipline a caller can pass
InputsOfType(t) == {o \in OrderInputs : o.order_type = t}

\* sum of the quantities of a trade list
TradedQuantity(tr) == SumSeq([i \in 1..Len(tr) |-> tr[i].bid_trade.quantity])

\* how many queue slots of a side map hold the address
SlotsIn(m, order_id) ==
    SumSeq([k \in 1..MaxPrice |->
        IF k \in DOMAIN m THEN Cardinality({i \in 1..Len(m[k]) : m[k][i] = order_id}) ELSE 0])

Slots(b, order_id) == SlotsIn(b.bids, order_id) + SlotsIn(b.asks, order_id)

\* the addresses queued at a price, on both sides
QueuedAt(b, p) ==
    (IF p \in DOMAIN b.bids THEN b.bids[p] ELSE <<>>) \o (IF p \in DOMAIN b.asks THEN b.asks[p] ELSE <<>>)

\* C1: no call blocks forever entering the book lock its own thread holds:
\* every add, cancel and modify acquires the lock once, releases it and returns.
C1_NoSelfDeadlock == pc # "deadlock"

\* C2: AllOrNone atomicity: at rest, an add of a FILL_OR_KILL order that returns
\* either emitted trades that sum to the order's initial quantity and left the
\* order non-resident, or emitted no trade and left bids, asks, registry and
\* ledger as they were.
C2_AllOrNoneAtomic ==
    AtRest => \A o \in InputsOfType("FILL_OR_KILL") :
        LET r == add_order(Book, o)
        IN r.status = "returned" =>
              \/ /\ ~InRegistry(Book, o.order_id)
                 /\ TradedQuantity(r.trades) = o.initial_quantity
                 /\ ~InRegistry(r.book, o.order_id)
                 /\ Slots(r.book, o.order_id) = 0
              \/ /\ r.trades = <<>>
                 /\ r.book = Book

\* C3: an ImmediateOrCancel order never rests: once the add of a FILL_AND_KILL
\* order has returned, rejected or filled in part or in full, the registry and
\* the queues hold no record of it, so at rest no record they hold is a
\* FILL_AND_KILL order.
C3_FillAndKillNeverRests ==
    AtRest => \A id \in Ids :
        (InRegistry(Book, id) \/ Slots(Book, id) > 0) => obj[id].order_type # "FILL_AND_KILL"

\* C4: uncrossed at rest: after every call and every pruner cancel, if both
\* side maps are non-empty the highest bid price is below the lowest ask price.
C4_UncrossedAtRest ==
    AtRest => ((DOMAIN bids # {} /\ DOMAIN asks # {}) => Max(DOMAIN bids) < Min(DOMAIN asks))

\* C5: no empty price level: at rest every key of bids and asks maps to a
\* non-empty queue, and the snapshot lists no level of a side without a
\* resident order.
C5_NoEmptyLevel ==
    AtRest =>
        /\ \A p \in DOMAIN bids : bids[p] # <<>>
        /\ \A p \in DOMAIN asks : asks[p] # <<>>
        /\ (\A i \in 1..Len(orders) : orders[i].side # "BUY") => get_order_infos(Book)[1] = {}
        /\ (\A i \in 1..Len(orders) : orders[i].side # "SELL") => get_order_infos(Book)[2] = {}

\* C6: ledger consistency: at rest, at every price of a side map the ledger
\* count is the number of orders queued at the price and the ledger quantity
\* the sum of their remaining quantities; a price with no resident order has no
\* ledger entry.
C6_LedgerConsistent ==
    AtRest => \A p \in Prices :
        LET q == QueuedAt(Book, p)
        IN /\ (p \in DOMAIN bids \cup DOMAIN asks) =>
                /\ p \in DOMAIN data
                /\ data[p].count = Len(q)
                /\ data[p].quantity = SumSeq([i \in 1..Len(q) |-> obj[q[i]].remaining_quantity])
           /\ q = <<>> => p \notin DOMAIN data

\* C7: registry consistency: at rest an identifier is in the registry iff its
\* record occupies exactly one queue slot, that slot is on the side map of the
\* order's side under the order's price, the registry's handle is that queue,
\* and size() is the number of orders over all queues.
C7_RegistryConsistent ==
    AtRest =>
        /\ \A id \in Ids :
            IF InRegistry(Book, id)
            THEN LET e == RegistryEntry(Book, id)
                     o == obj[id]
                 IN /\ Slots(Book, id) = 1
                    /\ Cardinality({i \in 1..Len(orders) : orders[i].order_id = id}) = 1
                    /\ o.order_id = id
                    /\ o.price \in DOMAIN SideMap(Book, o.side)
                    /\ \E i \in 1..Len(SideMap(Book, o.side)[o.price]) : SideMap(Book, o.side)[o.price][i] = id
                    /\ e.side = o.side
                    /\ e.price = o.price
            ELSE Slots(Book, id) = 0
        /\ size(Book) = SumSeq([k \in 1..MaxPrice |-> Len(QueuedAt(Book, k))])

\* C7 witness: three calls were made, a trade removed a filled order, and
\* orders rest on both sides
C7_Witness ==
    /\ AtRest
    /\ ncalls = 3
    /\ trades # <<>>
    /\ size(Book) = 2
    /\ \E i \in 1..Len(orders) : orders[i].side = "BUY"
    /\ \E i \in 1..Len(orders) : orders[i].side = "SELL"

\* C8: modify is cancel-then-add: at rest, modify of a resident identifier
\* returns, and its trades and the resulting book are those of cancel followed
\* by add of an order with the original discipline, the same identifier and the
\* new side, price and quantity.
C8_ModifyIsCancelThenAdd ==
    AtRest => \A m \in OrderModify :
        InRegistry(Book, m.order_id) =>
            LET r == add_order(cancel_order(Book, m.order_id), to_order(m, obj[m.order_id].order_type))
            IN modify_order(Book, m) = [book |-> r.book, trades |-> r.trades, status |-> "returned"]

\* C9: cancel inverts insert: at rest, adding a GOOD_TILL_CANCEL or
\* GOOD_FOR_DAY order with a fresh identifier and a price not marketable against
\* the opposite side and then cancelling it leaves bids, asks, registry and
\* ledger equal to their values before the add.
C9_CancelInvertsInsert ==
    AtRest => \A o \in InputsOfType("GOOD_TILL_CANCEL") \cup InputsOfType("GOOD_FOR_DAY") :
        (~InRegistry(Book, o.order_id) /\ ~_can_match(Book, o.side, o.price)) =>
            LET r == add_order(Book, o)
            IN r.status = "returned" => cancel_order(r.book, o.order_id) = Book

\* an order admitted before order_id rests at order_id's side and price with
\* remaining quantity; the registry keeps its entries in admission order
EarlierWaiting(b, order_id) ==
    \E i, j \in 1..Len(b.orders) :
        /\ i < j
        /\ b.orders[j].order_id = order_id
        /\ b.orders[i].side = b.orders[j].side
        /\ b.orders[i].price = b.orders[j].price
        /\ b.obj[b.orders[i].order_id].remaining_quantity > 0

\* C10: time priority within a level: in every step that emits a trade, neither
\* order of the trade has an order admitted earlier at its side and price that
\* is still resident with remaining quantity.
C10_TimePriority ==
    [][Len(trades') = Len(trades) + 1 =>
        LET t == trades'[Len(trades')]
        IN /\ ~EarlierWaiting(Book, t.bid_trade.order_id)
           /\ ~EarlierWaiting(Book, t.ask_trade.order_id)]_vars

\* C10 witness: the last trade filled a bid while another bid admitted later at
\* the same price still waits with remaining quantity
C10_Witness ==
    /\ trades # <<>>
    /\ LET t == trades[Len(trades)]
       IN /\ t.bid_trade.quantity > 0
          /\ \E i \in 1..Len(orders) :
                /\ orders[i].side = "BUY"
                /\ orders[i].price = t.bid_trade.price
                /\ orders[i].order_id # t.bid_trade.order_id
                /\ obj[orders[i].order_id].remaining_quantity > 0
                /\ \A j \in 1..Len(orders) : orders[j].order_id = t.bid_trade.order_id => j < i

\* the orders a caller can pass with an identifier no order of the model's
\* calls carries
FreshInputs(t) ==
    {Order(t, MaxId + 1, sd, p, q) : sd \in Side, p \in Prices, q \in Quantities}

Opposite(side) == IF side = "BUY" THEN "SELL" ELSE "BUY"

\* remaining quantity queued on a side at the prices of a set
DepthAt(b, side, ps) ==
    LET m == SideMap(b, side)
    IN SumSeq([k \in 1..MaxPrice |->
           IF k \in ps /\ k \in DOMAIN m
           THEN SumSeq([i \in 1..Len(m[k]) |-> b.obj[m[k][i]].remaining_quantity])
           ELSE 0])

\* the prices of the opposite side an order's limit can trade at
MarketablePrices(o) == IF o.side = "BUY" THEN {p \in Prices : p <= o.price} ELSE {p \in Prices : p >= o.price}

\* C11: matching conserves quantity: at rest, an add of a GOOD_TILL_CANCEL or
\* GOOD_FOR_DAY order with a fresh identifier that returns emits trades whose
\* two sides carry equal quantities, whose quantities sum to the minimum of the
\* order's initial quantity and the remaining quantity resting on the opposite
\* side at marketable prices before the add, and the opposite side loses
\* exactly that sum.
C11_MatchingConservesQuantity ==
    AtRest => \A o \in FreshInputs("GOOD_TILL_CANCEL") \cup FreshInputs("GOOD_FOR_DAY") :
        LET r == add_order(Book, o)
            opp == Opposite(o.side)
        IN r.status = "returned" =>
            /\ \A i \in 1..Len(r.trades) : r.trades[i].bid_trade.quantity = r.trades[i].ask_trade.quantity
            /\ TradedQuantity(r.trades) = MinOf(o.initial_quantity, DepthAt(Book, opp, MarketablePrices(o)))
            /\ DepthAt(Book, opp, Prices) - DepthAt(r.book, opp, Prices) = TradedQuantity(r.trades)

\* the order the add in progress inserted
Aggressor == obj[call.order_id]

\* C12: trade price policy: in every step that emits a trade, the bid side of
\* the trade carries the identifier and the limit price of a BUY order, the ask
\* side those of a SELL order, and the two prices differ exactly when the limit
\* of the order being added is strictly better than the price of the order on
\* the other side of the trade.
C12_TradePricePolicy ==
    [][Len(trades') = Len(trades) + 1 =>
        LET t == trades'[Len(trades')]
        IN /\ t.bid_trade.order_id \in DOMAIN obj
           /\ obj[t.bid_trade.order_id].side = "BUY"
           /\ obj[t.bid_trade.order_id].price = t.bid_trade.price
           /\ t.ask_trade.order_id \in DOMAIN obj
           /\ obj[t.ask_trade.order_id].side = "SELL"
           /\ obj[t.ask_trade.order_id].price = t.ask_trade.price
           /\ (t.bid_trade.price # t.ask_trade.price) <=>
                  (IF Aggressor.side = "BUY"
                   THEN Aggressor.price > t.ask_trade.price
                   ELSE Aggressor.price < t.bid_trade.price)]_vars

\* a step of the pruner that takes its snapshot or cancels one identifier of it
PrunerActs ==
    \/ prunerPc = "snapshot" /\ prunerPc' # "snapshot"
    \/ prunerPc = "cancel" /\ order_ids' = Tail(order_ids)

\* C13: GOOD_FOR_DAY orders are pruned only at the cutoff: the pruner takes its
\* snapshot and makes its cancels only once the clock has reached the cutoff,
\* so before the cutoff no step of the pruner ends the residency of a
\* GOOD_FOR_DAY order.
C13_PrunedOnlyAtCutoff ==
    [][PrunerActs =>
        /\ now >= Cutoff
        /\ \A id \in Ids :
              (InRegistry(Book, id) /\ obj[id].order_type = "GOOD_FOR_DAY" /\ now < Cutoff)
                  => InRegistry([orders |-> orders'], id)]_vars

\* C14: shutdown liveness: once cleanup has set the shutdown flag the pruner
\* eventually leaves its loop, and from then on takes no snapshot and makes no
\* cancel.
C14_ShutdownLiveness ==
    /\ shutdown ~> (prunerPc = "done")
    /\ [][prunerPc = "done" => (prunerPc' = "done" /\ order_ids' = order_ids)]_vars

\* a caller's call starts in this step
CallStarts(op) == ncalls' = ncalls + 1 /\ call'.op = op

\* the call returned at once with no trade and the book as it was
SilentlyRejected == Book' = Book /\ trades' = <<>> /\ pc' = "idle" /\ lock' = "free" /\ ~call'.raised

\* C15: silent rejections leave the book unchanged: an add whose identifier is
\* in the registry, a cancel of an identifier that is not (by a caller or by
\* the pruner) and a modify of an identifier that is not return at once, with
\* no trade and no error, and leave bids, asks, registry, ledger and every
\* order record as they were.
C15_SilentRejections ==
    [][/\ (CallStarts("add") /\ InRegistry(Book, call'.order_id)) => SilentlyRejected
       /\ (CallStarts("cancel") /\ ~InRegistry(Book, call'.order_id)) => SilentlyRejected
       /\ (CallStarts("modify") /\ ~InRegistry(Book, call'.order_id)) => SilentlyRejected
       /\ (prunerPc = "cancel" /\ order_ids' = Tail(order_ids) /\ ~InRegistry(Book, Head(order_ids)))
             => Book' = Book]_vars

\* C15 witness: an add was rejected although its order could match, because
\* its identifier is resident, and the resident order still waits
C15_Witness ==
    /\ AtRest
    /\ call.op = "add"
    /\ ~call.admitted
    /\ InRegistry(Book, call.order_id)
    /\ obj[call.order_id].remaining_quantity > 0
    /\ ncalls = MaxOps

\* no order is queued on a side
NoneQueued(b, side) == \A p \in DOMAIN SideMap(b, side) : SideMap(b, side)[p] = <<>>

\* the price add_order converts a market order to (lines 163, 166)
WorstOpposite(b, side) == IF side = "BUY" THEN Max(DOMAIN b.asks) ELSE Min(DOMAIN b.bids)

\* the counterparty prices of a trade list go from the best level outwards
BestFirst(tr, side) ==
    \A i, j \in 1..Len(tr) :
        i < j => IF side = "BUY" THEN tr[i].ask_trade.price <= tr[j].ask_trade.price
                 ELSE tr[i].bid_trade.price >= tr[j].bid_trade.price

\* C16: market order walk-through: at rest, the add of a MARKET order with a
\* fresh identifier returns no trade and leaves the book unchanged when no
\* order is queued on the opposite side; otherwise it returns, its trades take
\* the opposite levels best first and sum to the minimum of its quantity and
\* the remaining quantity of the opposite side, and a residual rests on its own
\* side as a GOOD_TILL_CANCEL order at the worst opposite price.
C16_MarketWalkThrough ==
    AtRest => \A sd \in Side, q \in Quantities :
        LET o == create_market_order(MaxId + 1, sd, q)
            r == add_order(Book, o)
            opp == Opposite(sd)
            traded == TradedQuantity(r.trades)
        IN IF NoneQueued(Book, opp)
           THEN r = [book |-> Book, trades |-> <<>>, status |-> "returned"]
           ELSE /\ r.status = "returned"
                /\ traded = MinOf(q, DepthAt(Book, opp, Prices))
                /\ BestFirst(r.trades, sd)
                /\ IF traded < q
                   THEN /\ InRegistry(r.book, o.order_id)
                        /\ RegistryEntry(r.book, o.order_id).side = sd
                        /\ RegistryEntry(r.book, o.order_id).price = WorstOpposite(Book, sd)
                        /\ r.book.obj[o.order_id].order_type = "GOOD_TILL_CANCEL"
                        /\ r.book.obj[o.order_id].remaining_quantity = q - traded
                   ELSE ~InRegistry(r.book, o.order_id)

\* C17: the matching loop terminates: the loop of _match_orders never reaches
\* a pass that finds the best bid and best ask crossed, fills nothing and
\* changes nothing, from which it would repeat forever.
C17_MatchingTerminates == pc # "spin"

\* an order with remaining quantity is queued on the side at a price strictly
\* better than p
BetterWaits(b, side, p) ==
    \E k \in DOMAIN SideMap(b, side) :
        /\ IF side = "BUY" THEN k > p ELSE k < p
        /\ \E i \in 1..Len(SideMap(b, side)[k]) : b.obj[SideMap(b, side)[k][i]].remaining_quantity > 0

\* C18: price priority and trade order: in every step that emits a trade, the
\* trade is between the head of the highest-priced bid level and the head of
\* the lowest-priced ask level, no order with remaining quantity rests at a
\* strictly better price on either side, and in the trade list of the call the
\* ask prices do not decrease and the bid prices do not increase.
C18_PricePriority ==
    [][Len(trades') = Len(trades) + 1 =>
        LET t == trades'[Len(trades')]
        IN /\ DOMAIN bids # {} /\ DOMAIN asks # {}
           /\ bids[Max(DOMAIN bids)] # <<>> /\ asks[Min(DOMAIN asks)] # <<>>
           /\ t.bid_trade.order_id = Head(bids[Max(DOMAIN bids)])
           /\ t.ask_trade.order_id = Head(asks[Min(DOMAIN asks)])
           /\ t.bid_trade.price = Max(DOMAIN bids)
           /\ t.ask_trade.price = Min(DOMAIN asks)
           /\ ~BetterWaits(Book, "BUY", t.bid_trade.price)
           /\ ~BetterWaits(Book, "SELL", t.ask_trade.price)
           /\ BestFirst(trades', "BUY")
           /\ BestFirst(trades', "SELL")]_vars

\* C18 witness: a sell was filled by the bid of the higher level first and by
\* the bid of the lower level next
C18_Witness ==
    /\ AtRest
    /\ Len(trades) = 2
    /\ trades[1].ask_trade.order_id = call.order_id
    /\ trades[2].ask_trade.order_id = call.order_id
    /\ trades[1].bid_trade.price > trades[2].bid_trade.price

\* the best price of a side
BestLevel(b, side) == IF side = "BUY" THEN best_bid_price(b) ELSE best_ask_price(b)

\* the order meets a best opposite head of another discipline that has more
\* remaining quantity than the order asks for, and nothing on its own side
\* stands at its price or better
FilledByLargerHead(b, o) ==
    LET opp == Opposite(o.side)
    IN /\ _can_match(b, o.side, o.price)
       /\ \A k \in DOMAIN SideMap(b, o.side) : IF o.side = "BUY" THEN k < o.price ELSE k > o.price
       /\ SideMap(b, opp)[BestLevel(b, opp)] # <<>>
       /\ LET head == b.obj[Head(SideMap(b, opp)[BestLevel(b, opp)])]
          IN /\ head.order_type # "FILL_AND_KILL"
             /\ head.remaining_quantity > o.initial_quantity

\* C19: the FILL_AND_KILL short-circuit cancels only FILL_AND_KILL residuals:
\* at rest, the add of a FILL_AND_KILL order with a fresh identifier that is
\* filled in full by a larger resting head of another discipline returns one
\* trade of the order's quantity, and the resting order keeps its registry
\* entry, its queue and its place in it, with its remaining quantity reduced
\* by the fill.
C19_OnlyFillAndKillCancelled ==
    AtRest => \A o \in FreshInputs("FILL_AND_KILL") :
        FilledByLargerHead(Book, o) =>
            LET opp == Opposite(o.side)
                level == BestLevel(Book, opp)
                head == Book.obj[Head(SideMap(Book, opp)[level])]
                r == add_order(Book, o)
            IN /\ r.status = "returned"
               /\ Len(r.trades) = 1
               /\ TradedQuantity(r.trades) = o.initial_quantity
               /\ InRegistry(r.book, head.order_id)
               /\ RegistryEntry(r.book, head.order_id) = RegistryEntry(Book, head.order_id)
               /\ SideMap(r.book, opp) = SideMap(Book, opp)
               /\ r.book.obj[head.order_id].remaining_quantity = head.remaining_quantity - o.initial_quantity

\* C20: remaining quantity stays in bounds: in every reachable state every
\* order record has 0 <= remaining_quantity <= initial_quantity and a positive
\* initial quantity, and no call has seen Order.fill raise.
C20_RemainingInBounds ==
    /\ \A id \in DOMAIN obj :
          /\ obj[id].initial_quantity > 0
          /\ 0 <= obj[id].remaining_quantity
          /\ obj[id].remaining_quantity <= obj[id].initial_quantity
    /\ ~call.raised

\* C20 witness: a trade has filled one resident order in part and another
\* resident order in full
C20_Witness ==
    /\ trades # <<>>
    /\ \E id \in DOMAIN obj : 0 < obj[id].remaining_quantity /\ obj[id].remaining_quantity < obj[id].initial_quantity
    /\ \E id \in DOMAIN obj : obj[id].remaining_quantity = 0

\* C21: the pruner removes only GOOD_FOR_DAY orders: in every step in which
\* the pruner cancels an identifier of its snapshot, under every interleaving
\* with the callers' calls, an order that leaves the registry has discipline
\* GOOD_FOR_DAY at that moment.
C21_PrunerRemovesOnlyGoodForDay ==
    [][(prunerPc = "cancel" /\ order_ids' = Tail(order_ids)) =>
        \A id \in Ids :
            (InRegistry(Book, id) /\ ~InRegistry([orders |-> orders'], id))
                => obj[id].order_type = "GOOD_FOR_DAY"]_vars

\* C22: fully filled orders leave the book: at rest every order in the
\* registry or in a queue has remaining quantity of at least 1.
C22_FilledOrdersLeave ==
    AtRest => \A id \in Ids :
        (InRegistry(Book, id) \/ Slots(Book, id) > 0) => obj[id].remaining_quantity >= 1

====
